---- MODULE Spec2Model ----
(***************************************************************************)
(* ShopSmart authentication: the client auth store (AuthContext.jsx), the  *)
(* MSW mock of the auth API (handlers.js) and the Auth Service contract.   *)
(*                                                                         *)
(* JavaScript strings that the code takes apart (emails, tokens, headers,  *)
(* passwords) are sequences of one-character strings; null/undefined is    *)
(* the value Null.  Messages are only ever compared, so they stay atomic.  *)
(***************************************************************************)
EXTENDS Integers, Sequences, FiniteSets, Bags, TLC

VARIABLES
    user,       \* AuthProvider state `user` (AuthContext.jsx:14)
    token,      \* AuthProvider state `token` (AuthContext.jsx:15)
    loading,    \* AuthProvider state `loading` (AuthContext.jsx:16)
    ls,         \* localStorage slot 'token'
    depsToken,  \* the [token] dependency of the last run of the effect
    calls,      \* the client's fetches that have not resolved yet
    last,       \* what the last client step did (its outcome, for the caller)
    meSent,     \* GetCurrentUser requests issued since the provider mounted
    ops,        \* login/signup/reload steps taken so far (bounded)
    backend,    \* which implementation answers: "service" or "mock"
    store,      \* the Auth Service's user store
    now,        \* the clock read by Date.now() and by token issue/expiry
    reqs        \* requests sent straight to the API (service-level runs)

vars == <<user, token, loading, ls, depsToken, calls, last, meSent, ops,
          backend, store, now, reqs>>

clientVars == <<user, token, loading, ls, depsToken, calls, last, meSent, ops>>

-----------------------------------------------------------------------------
(* Bounds *)

MaxOps == 2        \* login/signup invocations and reloads per run
MaxTime == 2       \* the clock runs over 0..MaxTime
TokenTTL == 2      \* lifetime of a service token, in clock ticks
MaxReqs == 2       \* direct API requests per service-level run

-----------------------------------------------------------------------------
(* JavaScript values and string functions *)

Null == <<"null">>

\* !v for a string-or-null v
Falsy(v) == v = Null \/ v = <<>>

Truthy(v) == ~Falsy(v)

\* a || null
OrNull(v) == IF Falsy(v) THEN Null ELSE v

\* s.startsWith(p)
StartsWith(s, p) == Len(s) >= Len(p) /\ SubSeq(s, 1, Len(p)) = p

\* index of the first c in s at or after position i, or 0
RECURSIVE IndexFrom(_, _, _)
IndexFrom(s, c, i) ==
    IF i > Len(s) THEN 0
    ELSE IF s[i] = c THEN i
    ELSE IndexFrom(s, c, i + 1)

\* s.split(c)
RECURSIVE Split(_, _)
Split(s, c) ==
    LET k == IndexFrom(s, c, 1) IN
    IF k = 0 THEN <<s>>
    ELSE <<SubSeq(s, 1, k - 1)>> \o Split(SubSeq(s, k + 1, Len(s)), c)

Digits == <<"0", "1", "2", "3", "4", "5", "6", "7", "8", "9">>

IsDigit(c) == \E d \in 1..10 : Digits[d] = c

DigitVal(c) == (CHOOSE d \in 1..10 : Digits[d] = c) - 1

\* `${n}` for a natural number n
RECURSIVE ToStr(_)
ToStr(n) ==
    IF n < 10 THEN <<Digits[n + 1]>>
    ELSE ToStr(n \div 10) \o <<Digits[(n % 10) + 1]>>

RECURSIVE DigitPrefixVal(_, _, _)
DigitPrefixVal(s, i, acc) ==
    IF i > Len(s) \/ ~IsDigit(s[i]) THEN acc
    ELSE DigitPrefixVal(s, i + 1, acc * 10 + DigitVal(s[i]))

\* parseInt(s): <<n>> for the leading run of digits, << >> for NaN
ParseInt(s) ==
    IF Len(s) = 0 \/ ~IsDigit(s[1]) THEN <<>>
    ELSE <<DigitPrefixVal(s, 1, 0)>>

-----------------------------------------------------------------------------
(* String constants *)

JohnEmail == <<"j","o","h","n","@","e","x","a","m","p","l","e",".","c","o","m">>
JaneEmail == <<"j","a","n","e","@","e","x","a","m","p","l","e",".","c","o","m">>
NewEmail == <<"n","e","w","@","x",".","c","o","m">>
Password123 == <<"p","a","s","s","w","o","r","d","1","2","3">>
Password456 == <<"p","a","s","s","w","o","r","d","4","5","6">>
WrongPassword == <<"w","r","o","n","g">>
BearerPrefix == <<"B","e","a","r","e","r"," ">>
MockTokenPrefix == <<"m","o","c","k","-","j","w","t","-","t","o","k","e","n","-">>

-----------------------------------------------------------------------------
(* HTTP responses.  A response is its status and its JSON body. *)

Resp(status, body) == [status |-> status, body |-> body]

Failure(status, message) == Resp(status, [success |-> FALSE, message |-> message])

MsgRequired == "Email and password are required"
MsgBadEmail == "Invalid email format"
MsgShortPassword == "Password must be at least 6 characters long"
MsgExists == "User with this email already exists"
MsgBadCredentials == "Invalid email or password"
MsgNoToken == "No token provided"
MsgBadToken == "Invalid or expired token"
MsgNoUser == "User not found"

\* /^.+@.+\..+$/ .test(s): any characters around the '@' and the '.'
EmailRegexTestLoose(s) ==
    \E i \in 1..Len(s), j \in 1..Len(s) :
        /\ 1 < i /\ i + 1 < j /\ j < Len(s)
        /\ s[i] = "@" /\ s[j] = "."

\* /^[^\s@]+@[^\s@]+\.[^\s@]+$/ .test(s)
IsSpace(c) == c \in {" ", "\t", "\n", "\r"}

EmailRegexTest(s) ==
    \E i \in 1..Len(s), j \in 1..Len(s) :
        /\ 1 < i /\ i + 1 < j /\ j < Len(s)
        /\ s[i] = "@" /\ s[j] = "."
        /\ \A k \in (1..Len(s)) \ {i} : ~IsSpace(s[k]) /\ s[k] # "@"

MinPasswordLength == 6

\* the first of a set of array indices
First(idx) == CHOOSE i \in idx : \A j \in idx : i <= j

-----------------------------------------------------------------------------
(* The MSW mock of the API (handlers.js).  Dates are clock values; the     *)
(* seeded users' createdAt is the instant 0.                               *)

mockUsers ==
    << [id |-> 1, email |-> JohnEmail, firstName |-> <<"J","o","h","n">>,
        lastName |-> <<"D","o","e">>, password |-> "$2a$10$mockhashedpassword123",
        createdAt |-> 0],
       [id |-> 2, email |-> JaneEmail, firstName |-> <<"J","a","n","e">>,
        lastName |-> <<"S","m","i","t","h">>, password |-> "$2a$10$mockhashedpassword456",
        createdAt |-> 0] >>

\* validCredentials[email]; undefined for any other key
validCredentials(email) ==
    IF email = JohnEmail THEN Password123
    ELSE IF email = JaneEmail THEN Password456
    ELSE Null

\* a login handler that tells an unknown email from a wrong password
MockLoginRevealsUnknown(body, t) ==
    IF Falsy(body.email) \/ Falsy(body.password)
    THEN Failure(400, MsgRequired)
    ELSE IF \A i \in 1..Len(mockUsers) : mockUsers[i].email # body.email
    THEN Failure(404, MsgNoUser)
    ELSE Failure(401, MsgBadCredentials)

\* `mock-jwt-token-${userId}-${email}-${Date.now()}`
generateMockToken(userId, email, t) ==
    MockTokenPrefix \o ToStr(userId) \o <<"-">> \o email \o <<"-">> \o ToStr(t)

\* mockUsers.find(u => u.email === email): <<u>> for the first match, << >> for undefined
MockFindByEmail(email) ==
    LET idx == {i \in 1..Len(mockUsers) : mockUsers[i].email = email} IN
    IF idx = {} THEN <<>> ELSE <<mockUsers[First(idx)]>>

\* mockUsers.find(u => u.id === userId)
MockFindById(id) ==
    LET idx == {i \in 1..Len(mockUsers) : mockUsers[i].id = id} IN
    IF idx = {} THEN <<>> ELSE <<mockUsers[First(idx)]>>

\* a login handler that puts the found user, as stored, in its response
MockLoginLeaksUser(body, t) ==
    IF Falsy(body.email) \/ Falsy(body.password)
    THEN Failure(400, MsgRequired)
    ELSE LET found == MockFindByEmail(body.email)
             validPassword == validCredentials(body.email)
         IN  IF found = <<>> \/ body.password # validPassword
             THEN Failure(401, MsgBadCredentials)
             ELSE LET u == found[1] IN
                  Resp(200, [success |-> TRUE, message |-> "Login successful",
                             data |-> [user |-> u,
                                       token |-> generateMockToken(u.id, u.email, t)]])

\* a login handler that applies signup's password-length rule
MockLoginChecksLength(body, t) ==
    IF Falsy(body.email) \/ Falsy(body.password)
    THEN Failure(400, MsgRequired)
    ELSE IF Len(body.password) < MinPasswordLength
    THEN Failure(400, MsgShortPassword)
    ELSE LET found == MockFindByEmail(body.email)
             validPassword == validCredentials(body.email)
         IN  IF found = <<>> \/ body.password # validPassword
             THEN Failure(401, MsgBadCredentials)
             ELSE LET u == found[1] IN
                  Resp(200, [success |-> TRUE, message |-> "Login successful",
                             data |-> [user |-> [id |-> u.id, email |-> u.email,
                                                 firstName |-> u.firstName,
                                                 lastName |-> u.lastName],
                                       token |-> generateMockToken(u.id, u.email, t)]])

\* POST */api/auth/login
MockLogin(body, t) ==
    IF Falsy(body.email) \/ Falsy(body.password)
    THEN Failure(400, MsgRequired)
    ELSE LET found == MockFindByEmail(body.email)
             validPassword == validCredentials(body.email)
         IN  IF found = <<>> \/ body.password # validPassword
             THEN Failure(401, MsgBadCredentials)
             ELSE LET u == found[1] IN
                  Resp(200, [success |-> TRUE, message |-> "Login successful",
                             data |-> [user |-> [id |-> u.id, email |-> u.email,
                                                 firstName |-> u.firstName,
                                                 lastName |-> u.lastName],
                                       token |-> generateMockToken(u.id, u.email, t)]])

\* the signup handler's last step with the token made for the last seeded user
MockCreatedTokenOfLastUser(body, t) ==
    LET newUser == [id |-> Len(mockUsers) + 1, email |-> body.email,
                    firstName |-> OrNull(body.firstName),
                    lastName |-> OrNull(body.lastName),
                    createdAt |-> t]
    IN  Resp(201, [success |-> TRUE, message |-> "User created successfully",
                   data |-> [user |-> newUser,
                             token |-> generateMockToken(Len(mockUsers), newUser.email, t)]])

\* the signup handler's last step: "create new user" and answer 201
MockCreated(body, t) ==
    LET newUser == [id |-> Len(mockUsers) + 1, email |-> body.email,
                    firstName |-> OrNull(body.firstName),
                    lastName |-> OrNull(body.lastName),
                    createdAt |-> t]
    IN  Resp(201, [success |-> TRUE, message |-> "User created successfully",
                   data |-> [user |-> newUser,
                             token |-> generateMockToken(newUser.id, newUser.email, t)]])

\* a signup handler that tests the email's format before its presence
MockSignupFormatFirst(body, t) ==
    IF Truthy(body.email) /\ ~EmailRegexTest(body.email)
    THEN Failure(400, MsgBadEmail)
    ELSE IF Falsy(body.email) \/ Falsy(body.password)
    THEN Failure(400, MsgRequired)
    ELSE IF Len(body.password) < MinPasswordLength
    THEN Failure(400, MsgShortPassword)
    ELSE IF MockFindByEmail(body.email) # <<>>
    THEN Failure(409, MsgExists)
    ELSE MockCreated(body, t)

\* a signup handler that also refuses a password of the minimum length
MockSignupLengthInclusive(body, t) ==
    IF Falsy(body.email) \/ Falsy(body.password)
    THEN Failure(400, MsgRequired)
    ELSE IF ~EmailRegexTest(body.email)
    THEN Failure(400, MsgBadEmail)
    ELSE IF Len(body.password) <= MinPasswordLength
    THEN Failure(400, MsgShortPassword)
    ELSE IF MockFindByEmail(body.email) # <<>>
    THEN Failure(409, MsgExists)
    ELSE MockCreated(body, t)

\* a signup handler that looks the email up before it tests the password
MockSignupConflictFirst(body, t) ==
    IF Falsy(body.email) \/ Falsy(body.password)
    THEN Failure(400, MsgRequired)
    ELSE IF ~EmailRegexTest(body.email)
    THEN Failure(400, MsgBadEmail)
    ELSE IF MockFindByEmail(body.email) # <<>>
    THEN Failure(409, MsgExists)
    ELSE IF Len(body.password) < MinPasswordLength
    THEN Failure(400, MsgShortPassword)
    ELSE MockCreated(body, t)

\* a signup handler without the "check if user already exists" step
MockSignupNoConflict(body, t) ==
    IF Falsy(body.email) \/ Falsy(body.password)
    THEN Failure(400, MsgRequired)
    ELSE IF ~EmailRegexTest(body.email)
    THEN Failure(400, MsgBadEmail)
    ELSE IF Len(body.password) < MinPasswordLength
    THEN Failure(400, MsgShortPassword)
    ELSE MockCreated(body, t)

\* POST */api/auth/signup
MockSignup(body, t) ==
    IF Falsy(body.email) \/ Falsy(body.password)
    THEN Failure(400, MsgRequired)
    ELSE IF ~EmailRegexTest(body.email)
    THEN Failure(400, MsgBadEmail)
    ELSE IF Len(body.password) < MinPasswordLength
    THEN Failure(400, MsgShortPassword)
    ELSE IF MockFindByEmail(body.email) # <<>>
    THEN Failure(409, MsgExists)
    ELSE MockCreated(body, t)

\* a me handler that answers a token of an unknown user like a bad token
MockMeUnknownIsBadToken(authHeader) ==
    IF authHeader = Null \/ ~StartsWith(authHeader, BearerPrefix)
    THEN Failure(401, MsgNoToken)
    ELSE LET tok == Split(authHeader, " ")[2] IN
         IF Falsy(tok) \/ ~StartsWith(tok, MockTokenPrefix)
         THEN Failure(401, MsgBadToken)
         ELSE LET userId == ParseInt(Split(tok, "-")[4])
                  found == IF userId = <<>> THEN <<>> ELSE MockFindById(userId[1])
              IN  IF found = <<>>
                  THEN Failure(401, MsgBadToken)
                  ELSE LET u == found[1] IN
                       Resp(200, [success |-> TRUE,
                                  data |-> [user |-> [id |-> u.id, email |-> u.email,
                                                      firstName |-> u.firstName,
                                                      lastName |-> u.lastName,
                                                      createdAt |-> u.createdAt]]])

\* a me handler that takes a header without 'Bearer ' as the token itself
MockMeResolvesBare(authHeader) ==
    IF authHeader = Null \/ authHeader = <<>>
    THEN Failure(401, MsgNoToken)
    ELSE LET tok == IF StartsWith(authHeader, BearerPrefix)
                    THEN Split(authHeader, " ")[2] ELSE authHeader
         IN  IF Falsy(tok) \/ ~StartsWith(tok, MockTokenPrefix)
             THEN Failure(401, MsgBadToken)
             ELSE LET userId == ParseInt(Split(tok, "-")[4])
                      found == IF userId = <<>> THEN <<>> ELSE MockFindById(userId[1])
                  IN  IF found = <<>>
                      THEN Failure(404, MsgNoUser)
                      ELSE LET u == found[1] IN
                           Resp(200, [success |-> TRUE,
                                      data |-> [user |-> [id |-> u.id, email |-> u.email,
                                                          firstName |-> u.firstName,
                                                          lastName |-> u.lastName,
                                                          createdAt |-> u.createdAt]]])

\* GET */api/auth/me
MockMe(authHeader) ==
    IF authHeader = Null \/ ~StartsWith(authHeader, BearerPrefix)
    THEN Failure(401, MsgNoToken)
    ELSE LET tok == Split(authHeader, " ")[2] IN
         IF Falsy(tok) \/ ~StartsWith(tok, MockTokenPrefix)
         THEN Failure(401, MsgBadToken)
         ELSE LET userId == ParseInt(Split(tok, "-")[4])
                  found == IF userId = <<>> THEN <<>> ELSE MockFindById(userId[1])
              IN  IF found = <<>>
                  THEN Failure(404, MsgNoUser)
                  ELSE LET u == found[1] IN
                       Resp(200, [success |-> TRUE,
                                  data |-> [user |-> [id |-> u.id, email |-> u.email,
                                                      firstName |-> u.firstName,
                                                      lastName |-> u.lastName,
                                                      createdAt |-> u.createdAt]]])

-----------------------------------------------------------------------------
(* The Auth Service (server routes; their source is not in the repository  *)
(* snapshot, so these follow spec.md section 4.1 and the route tests).     *)

\* credential capability: hash, verify
SvcHash(password) == <<"#">> \o password

SvcVerify(password, hash) == hash = SvcHash(password)

\* the users the store holds when the service starts
SeedUsers ==
    { [id |-> 1, email |-> JohnEmail, firstName |-> <<"J","o","h","n">>,
       lastName |-> <<"D","o","e">>, password |-> SvcHash(Password123), createdAt |-> 0],
      [id |-> 2, email |-> JaneEmail, firstName |-> <<"J","a","n","e">>,
       lastName |-> <<"S","m","i","t","h">>, password |-> SvcHash(Password456),
       createdAt |-> 0] }

\* user-store capability: find-by-email, find-by-id, create
SvcFindByEmail(st, email) == {u \in st : u.email = email}

SvcFindById(st, id) == {u \in st : u.id = id}

SvcNextId(st) == 1 + Cardinality(st)

\* the user as a response carries it: never the password hash
SvcPublicUser(u) ==
    [id |-> u.id, email |-> u.email, firstName |-> u.firstName,
     lastName |-> u.lastName, createdAt |-> u.createdAt]

\* a signed token: jwt.<user id>.<issued at>.<signature>
SvcSignature == <<"s","i","g">>

\* token issue that binds the token to another identifier
SvcIssueTokenWrongUser(userId, t) ==
    <<"j","w","t",".">> \o ToStr(userId + 1) \o <<".">> \o ToStr(t) \o <<".">> \o SvcSignature

SvcIssueToken(userId, t) ==
    <<"j","w","t",".">> \o ToStr(userId) \o <<".">> \o ToStr(t) \o <<".">> \o SvcSignature

\* token resolution that does not verify the signature
SvcResolveTokenNoSignature(tok, t) ==
    LET parts == Split(tok, ".") IN
    IF Len(parts) # 4 THEN <<>>
    ELSE IF parts[1] # <<"j","w","t">> THEN <<>>
    ELSE LET id == ParseInt(parts[2])
             iat == ParseInt(parts[3])
         IN  IF id = <<>> \/ iat = <<>> THEN <<>>
             ELSE IF t - iat[1] >= TokenTTL THEN <<>>
             ELSE id

\* token resolution that never looks at the token's age
SvcResolveTokenNoExpiry(tok, t) ==
    LET parts == Split(tok, ".") IN
    IF Len(parts) # 4 THEN <<>>
    ELSE IF parts[1] # <<"j","w","t">> \/ parts[4] # SvcSignature THEN <<>>
    ELSE LET id == ParseInt(parts[2])
             iat == ParseInt(parts[3])
         IN  IF id = <<>> \/ iat = <<>> THEN <<>> ELSE id

\* <<user id>> when tok is a token of this service that has not expired at t
SvcResolveToken(tok, t) ==
    LET parts == Split(tok, ".") IN
    IF Len(parts) # 4 THEN <<>>
    ELSE IF parts[1] # <<"j","w","t">> \/ parts[4] # SvcSignature THEN <<>>
    ELSE LET id == ParseInt(parts[2])
             iat == ParseInt(parts[3])
         IN  IF id = <<>> \/ iat = <<>> THEN <<>>
             ELSE IF t - iat[1] >= TokenTTL THEN <<>>
             ELSE id

\* Signup steps 1-3: << >> when the input is valid, else the 400 response
SvcValidateSignup(body) ==
    IF Falsy(body.email) \/ Falsy(body.password) THEN <<Failure(400, MsgRequired)>>
    ELSE IF ~EmailRegexTest(body.email) THEN <<Failure(400, MsgBadEmail)>>
    ELSE IF Len(body.password) < MinPasswordLength THEN <<Failure(400, MsgShortPassword)>>
    ELSE <<>>

\* Signup steps 1-4, the existence check included
SvcSignupCheck(st, body) ==
    IF SvcValidateSignup(body) # <<>> THEN SvcValidateSignup(body)
    ELSE IF SvcFindByEmail(st, body.email) # {} THEN <<Failure(409, MsgExists)>>
    ELSE <<>>

\* a create that answers 201 and records nothing
SvcSignupCreateNoStore(st, body, t) ==
    [store |-> st,
     resp |-> Resp(201, [success |-> TRUE, message |-> "User created successfully",
                         data |-> [user |-> [id |-> SvcNextId(st), email |-> body.email,
                                             firstName |-> OrNull(body.firstName),
                                             lastName |-> OrNull(body.lastName),
                                             createdAt |-> t],
                                   token |-> SvcIssueToken(SvcNextId(st), t)]])]

\* a create that overwrites the user already stored under the email
SvcSignupCreateUpserts(st, body, t) ==
    LET kept == {u \in st : u.email # body.email}
        u == [id |-> SvcNextId(kept), email |-> body.email,
              firstName |-> OrNull(body.firstName),
              lastName |-> OrNull(body.lastName),
              password |-> SvcHash(body.password), createdAt |-> t]
    IN  [store |-> kept \cup {u},
         resp |-> IF kept = st
                  THEN Resp(201, [success |-> TRUE, message |-> "User created successfully",
                                  data |-> [user |-> SvcPublicUser(u),
                                            token |-> SvcIssueToken(u.id, t)]])
                  ELSE Failure(409, MsgExists)]

\* a create that lets the store's uniqueness violation through as a fault
SvcSignupCreateFaults(st, body, t) ==
    IF SvcFindByEmail(st, body.email) # {}
    THEN [store |-> st, resp |-> Failure(500, "Internal server error")]
    ELSE LET u == [id |-> SvcNextId(st), email |-> body.email,
                   firstName |-> OrNull(body.firstName),
                   lastName |-> OrNull(body.lastName),
                   password |-> SvcHash(body.password), createdAt |-> t]
         IN  [store |-> st \cup {u},
              resp |-> Resp(201, [success |-> TRUE, message |-> "User created successfully",
                                  data |-> [user |-> SvcPublicUser(u),
                                            token |-> SvcIssueToken(u.id, t)]])]

\* Signup step 5: create; the store refuses a second user with the same email
SvcSignupCreate(st, body, t) ==
    IF SvcFindByEmail(st, body.email) # {}
    THEN [store |-> st, resp |-> Failure(409, MsgExists)]
    ELSE LET u == [id |-> SvcNextId(st), email |-> body.email,
                   firstName |-> OrNull(body.firstName),
                   lastName |-> OrNull(body.lastName),
                   password |-> SvcHash(body.password), createdAt |-> t]
         IN  [store |-> st \cup {u},
              resp |-> Resp(201, [success |-> TRUE, message |-> "User created successfully",
                                  data |-> [user |-> SvcPublicUser(u),
                                            token |-> SvcIssueToken(u.id, t)]])]

\* a whole Signup with nothing in between its check and its create
SvcSignup(st, body, t) ==
    IF SvcSignupCheck(st, body) # <<>>
    THEN [store |-> st, resp |-> SvcSignupCheck(st, body)[1]]
    ELSE SvcSignupCreate(st, body, t)

SvcLogin(st, body, t) ==
    IF Falsy(body.email) \/ Falsy(body.password)
    THEN Failure(400, MsgRequired)
    ELSE LET found == SvcFindByEmail(st, body.email) IN
         IF found = {} \/ \A u \in found : ~SvcVerify(body.password, u.password)
         THEN Failure(401, MsgBadCredentials)
         ELSE LET u == CHOOSE x \in found : TRUE IN
              Resp(200, [success |-> TRUE, message |-> "Login successful",
                         data |-> [user |-> SvcPublicUser(u),
                                   token |-> SvcIssueToken(u.id, t)]])

SvcMe(st, authHeader, t) ==
    IF authHeader = Null \/ ~StartsWith(authHeader, BearerPrefix)
    THEN Failure(401, MsgNoToken)
    ELSE LET tok == SubSeq(authHeader, Len(BearerPrefix) + 1, Len(authHeader))
             id == SvcResolveToken(tok, t)
         IN  IF id = <<>> THEN Failure(401, MsgBadToken)
             ELSE IF SvcFindById(st, id[1]) = {} THEN Failure(404, MsgNoUser)
             ELSE Resp(200, [success |-> TRUE,
                             data |-> [user |-> SvcPublicUser(
                                          CHOOSE u \in SvcFindById(st, id[1]) : TRUE)]])

-----------------------------------------------------------------------------
(* The client auth store (AuthContext.jsx) *)

NoUser == [null |-> TRUE]

Unrun == <<"unrun">>

NoResp == [kind |-> "none"]

\* what `await fetch(...)` followed by `await response.json()` yields
Json(resp) == [kind |-> "json", status |-> resp.status, body |-> resp.body]

\* fetch rejects (the request got no answer)
Rejected == [kind |-> "reject"]

\* response.json() throws (the answer's body is not JSON)
BadJson == [kind |-> "badjson"]

MsgNetwork == "Network error. Please try again."

Backends == {"service", "mock"}

\* `Bearer ${token}`
AuthorizationHeader(tok) == BearerPrefix \o tok

LoginInputs ==
    { [email |-> JohnEmail, password |-> Password123],
      [email |-> JohnEmail, password |-> WrongPassword] }

SignupInputs ==
    { [email |-> NewEmail, password |-> Password123, firstName |-> Null, lastName |-> Null],
      [email |-> JohnEmail, password |-> Password123, firstName |-> Null, lastName |-> Null] }

\* what the storage slot may hold when the page is first loaded
StoredAtStart(b) ==
    { Null,
      <<"g","a","r","b","a","g","e">>,
      IF b = "mock" THEN generateMockToken(1, JohnEmail, 0) ELSE SvcIssueToken(1, 0) }

\* a fetch in flight: what was sent, and the answer once the backend gave one
Call(kind, req) == [kind |-> kind, req |-> req, st |-> "sent", resp |-> NoResp]

Without(bag, c) == bag (-) SetToBag({c})

With(bag, c) == bag (+) SetToBag({c})

\* what the two awaits of a fetch can yield for call c
Outcomes(c) == IF c.st = "resp" THEN {c.resp, BadJson} ELSE {Rejected}

\* isAuthenticated taken from the token instead of the user
IsAuthenticatedByToken == Truthy(token)

\* isAuthenticated: !!user
IsAuthenticated == user # NoUser

Init ==
    /\ backend \in Backends
    /\ store = SeedUsers
    /\ now = 0
    /\ reqs = <<>>
    /\ ls \in StoredAtStart(backend)
    /\ user = NoUser
    /\ token = ls
    /\ loading = TRUE
    /\ depsToken = Unrun
    /\ calls = EmptyBag
    /\ last = [ev |-> "mount", prev |-> "start"]
    /\ meSent = 0
    /\ ops = 0

\* the mount effect has run: the page takes the user's clicks from then on
Mounted == depsToken # Unrun

\* the effect without its `if (token)`: fetchUser() whatever the token is
RunEffectAlwaysFetches ==
    /\ depsToken # token
    /\ depsToken' = token
    /\ calls' = With(calls, Call("me", [authorization |-> AuthorizationHeader(token)]))
    /\ meSent' = meSent + 1
    /\ last' = [ev |-> "effect", boot |-> ~Mounted, fetched |-> TRUE,
                 prev |-> IF Mounted THEN "effect" ELSE last.prev]
    /\ UNCHANGED <<user, token, loading, ls, ops, backend, store, now, reqs>>

\* the effect with an empty dependency list: it runs when the page mounts
\* and never again
RunEffectMountOnly ==
    /\ depsToken = Unrun
    /\ depsToken' = token
    /\ IF Truthy(token)
       THEN /\ calls' = With(calls, Call("me", [authorization |-> AuthorizationHeader(token)]))
            /\ meSent' = meSent + 1
            /\ UNCHANGED loading
       ELSE /\ loading' = FALSE
            /\ UNCHANGED <<calls, meSent>>
    /\ last' = [ev |-> "effect", boot |-> ~Mounted, fetched |-> Truthy(token),
                 prev |-> IF Mounted THEN "effect" ELSE last.prev]
    /\ UNCHANGED <<user, token, ls, ops, backend, store, now, reqs>>

\* useEffect(() => { if (token) fetchUser(); else setLoading(false) }, [token])
\* up to the first await of fetchUser
RunEffect ==
    /\ depsToken # token
    /\ depsToken' = token
    /\ IF Truthy(token)
       THEN /\ calls' = With(calls, Call("me", [authorization |-> AuthorizationHeader(token)]))
            /\ meSent' = meSent + 1
            /\ UNCHANGED loading
       ELSE /\ loading' = FALSE
            /\ UNCHANGED <<calls, meSent>>
    /\ last' = [ev |-> "effect", boot |-> ~Mounted, fetched |-> Truthy(token),
                 prev |-> IF Mounted THEN "effect" ELSE last.prev]
    /\ UNCHANGED <<user, token, ls, ops, backend, store, now, reqs>>

\* logout() without its localStorage.removeItem('token')
LogoutBodyKeepsStorage ==
    /\ token' = Null
    /\ user' = NoUser
    /\ UNCHANGED ls

\* logout() without its setToken(null)
LogoutBodyKeepsToken ==
    /\ ls' = Null
    /\ user' = NoUser
    /\ UNCHANGED token

\* logout(): the three statements of its body
LogoutBody ==
    /\ ls' = Null
    /\ token' = Null
    /\ user' = NoUser

\* fetchUser that only drops the user when the lookup fails
FetchUserResolveKeepsToken(c, r) ==
    /\ c.kind = "me"
    /\ user' = IF r.kind = "json" /\ r.body.success THEN r.body.data.user ELSE NoUser
    /\ UNCHANGED <<token, ls>>
    /\ loading' = FALSE
    /\ calls' = Without(calls, c)
    /\ last' = [ev |-> "me", got |-> r]
    /\ UNCHANGED <<depsToken, meSent, ops, backend, store, now, reqs>>

\* fetchUser without its `finally`: loading is cleared on success only
FetchUserResolveNoFinally(c, r) ==
    /\ c.kind = "me"
    /\ IF r.kind = "json" /\ r.body.success
       THEN /\ user' = r.body.data.user
            /\ loading' = FALSE
            /\ UNCHANGED <<token, ls>>
       ELSE /\ LogoutBody
            /\ UNCHANGED loading
    /\ calls' = Without(calls, c)
    /\ last' = [ev |-> "me", got |-> r]
    /\ UNCHANGED <<depsToken, meSent, ops, backend, store, now, reqs>>

\* fetchUser from the first await on, for the call c, whose awaits yield r
FetchUserResolve(c, r) ==
    /\ c.kind = "me"
    /\ IF r.kind = "json" /\ r.body.success
       THEN /\ user' = r.body.data.user
            /\ UNCHANGED <<token, ls>>
       ELSE LogoutBody
    /\ loading' = FALSE
    /\ calls' = Without(calls, c)
    /\ last' = [ev |-> "me", got |-> r]
    /\ UNCHANGED <<depsToken, meSent, ops, backend, store, now, reqs>>

\* what login and signup return to their caller when their awaits yield r
AuthReturn(r) ==
    IF r.kind # "json" THEN [success |-> FALSE, message |-> MsgNetwork]
    ELSE IF r.body.success THEN [success |-> TRUE]
    ELSE [success |-> FALSE, message |-> r.body.message]

\* what the resolution of login/signup call c leaves for its caller: the
\* awaits' yield, the value returned, whether another login/signup is still
\* in flight, and the email of the user that the resolution this one raced
\* with had stored, if there was one
AuthEvent(c, r) ==
    [ev |-> c.kind, got |-> r, ret |-> AuthReturn(r),
     open |-> \E d \in BagToSet(Without(calls, c)) : d.kind \in {"login", "signup"},
     after |-> IF /\ last.ev \in {"login", "signup"} /\ last.open
                  /\ last.got.kind = "json" /\ last.got.body.success
               THEN <<last.got.body.data.user.email>> ELSE <<>>]

\* login/signup that keeps the session it already holds: the first
\* successful response wins
AuthResolveFirstWins(c, r) ==
    /\ IF r.kind = "json" /\ r.body.success /\ user = NoUser
       THEN /\ ls' = r.body.data.token
            /\ token' = r.body.data.token
            /\ user' = r.body.data.user
       ELSE UNCHANGED <<user, token, ls>>
    /\ last' = AuthEvent(c, r)
    /\ calls' = Without(calls, c)
    /\ UNCHANGED <<loading, depsToken, meSent, ops, backend, store, now, reqs>>

\* login/signup without localStorage.setItem('token', ...)
AuthResolveNoPersist(c, r) ==
    /\ IF r.kind = "json" /\ r.body.success
       THEN /\ token' = r.body.data.token
            /\ user' = r.body.data.user
            /\ UNCHANGED ls
       ELSE UNCHANGED <<user, token, ls>>
    /\ last' = AuthEvent(c, r)
    /\ calls' = Without(calls, c)
    /\ UNCHANGED <<loading, depsToken, meSent, ops, backend, store, now, reqs>>

\* login/signup that logs out when the service refuses
AuthResolveClearsOnFailure(c, r) ==
    /\ IF r.kind = "json" /\ r.body.success
       THEN /\ ls' = r.body.data.token
            /\ token' = r.body.data.token
            /\ user' = r.body.data.user
       ELSE IF r.kind = "json"
       THEN /\ ls' = Null
            /\ token' = Null
            /\ user' = NoUser
       ELSE UNCHANGED <<user, token, ls>>
    /\ last' = AuthEvent(c, r)
    /\ calls' = Without(calls, c)
    /\ UNCHANGED <<loading, depsToken, meSent, ops, backend, store, now, reqs>>

\* login/signup without try/catch: a failed await reaches the caller as an
\* exception, and the caller sends the request again
AuthResolveNoCatch(c, r) ==
    /\ IF r.kind = "json" /\ r.body.success
       THEN /\ ls' = r.body.data.token
            /\ token' = r.body.data.token
            /\ user' = r.body.data.user
       ELSE UNCHANGED <<user, token, ls>>
    /\ last' = [AuthEvent(c, r) EXCEPT
                    !.ret = IF r.kind = "json" THEN AuthReturn(r) ELSE [threw |-> TRUE]]
    /\ calls' = IF r.kind = "json" THEN Without(calls, c)
                ELSE With(Without(calls, c), Call(c.kind, c.req))
    /\ UNCHANGED <<loading, depsToken, meSent, ops, backend, store, now, reqs>>

\* the body of login and of signup from the first await on
AuthResolve(c, r) ==
    /\ IF r.kind = "json" /\ r.body.success
       THEN /\ ls' = r.body.data.token
            /\ token' = r.body.data.token
            /\ user' = r.body.data.user
       ELSE UNCHANGED <<user, token, ls>>
    /\ last' = AuthEvent(c, r)
    /\ calls' = Without(calls, c)
    /\ UNCHANGED <<loading, depsToken, meSent, ops, backend, store, now, reqs>>

\* login and signup up to their first await: the request is sent
AuthInvoke(kind, body) ==
    /\ ops < MaxOps
    /\ ops' = ops + 1
    /\ calls' = With(calls, Call(kind, body))
    /\ UNCHANGED <<user, token, loading, ls, depsToken, last, meSent,
                   backend, store, now, reqs>>

Login ==
    \E body \in LoginInputs : Mounted /\ AuthInvoke("login", body)

Signup ==
    \E body \in SignupInputs : Mounted /\ AuthInvoke("signup", body)

LoginResolve ==
    \E c \in BagToSet(calls) : \E r \in Outcomes(c) :
        c.kind = "login" /\ AuthResolve(c, r)

SignupResolve ==
    \E c \in BagToSet(calls) : \E r \in Outcomes(c) :
        c.kind = "signup" /\ AuthResolve(c, r)

FetchUserDone ==
    \E c \in BagToSet(calls) : \E r \in Outcomes(c) : FetchUserResolve(c, r)

Logout ==
    /\ Mounted
    /\ LogoutBody
    /\ last' = [ev |-> "logout", hadUser |-> IsAuthenticated]
    /\ UNCHANGED <<loading, depsToken, calls, meSent, ops, backend, store, now, reqs>>

\* the page is loaded again: AuthProvider mounts with fresh state
Reload ==
    /\ Mounted
    /\ ops < MaxOps
    /\ ops' = ops + 1
    /\ user' = NoUser
    /\ token' = ls
    /\ loading' = TRUE
    /\ depsToken' = Unrun
    /\ calls' = EmptyBag
    /\ meSent' = 0
    /\ last' = [ev |-> "mount", prev |-> last.ev]
    /\ UNCHANGED <<ls, backend, store, now, reqs>>

-----------------------------------------------------------------------------
(* The backend answering the client's requests *)

Answered(c, resp) == [c EXCEPT !.st = "resp", !.resp = Json(resp)]

MockAnswer(c, t) ==
    IF c.kind = "login" THEN MockLogin(c.req, t)
    ELSE IF c.kind = "signup" THEN MockSignup(c.req, t)
    ELSE MockMe(c.req.authorization)

MockHandle ==
    \E c \in BagToSet(calls) :
        /\ backend = "mock"
        /\ c.st = "sent"
        /\ calls' = With(Without(calls, c), Answered(c, MockAnswer(c, now)))
        /\ UNCHANGED <<user, token, loading, ls, depsToken, last, meSent, ops,
                       backend, store, now, reqs>>

SvcHandleLogin ==
    \E c \in BagToSet(calls) :
        /\ backend = "service"
        /\ c.kind = "login" /\ c.st = "sent"
        /\ calls' = With(Without(calls, c), Answered(c, SvcLogin(store, c.req, now)))
        /\ UNCHANGED <<user, token, loading, ls, depsToken, last, meSent, ops,
                       backend, store, now, reqs>>

SvcHandleMe ==
    \E c \in BagToSet(calls) :
        /\ backend = "service"
        /\ c.kind = "me" /\ c.st = "sent"
        /\ calls' = With(Without(calls, c),
                         Answered(c, SvcMe(store, c.req.authorization, now)))
        /\ UNCHANGED <<user, token, loading, ls, depsToken, last, meSent, ops,
                       backend, store, now, reqs>>

SvcHandleSignupCheck ==
    \E c \in BagToSet(calls) :
        /\ backend = "service"
        /\ c.kind = "signup" /\ c.st = "sent"
        /\ LET r == SvcSignupCheck(store, c.req) IN
           calls' = With(Without(calls, c),
                         IF r = <<>> THEN [c EXCEPT !.st = "checked"]
                         ELSE Answered(c, r[1]))
        /\ UNCHANGED <<user, token, loading, ls, depsToken, last, meSent, ops,
                       backend, store, now, reqs>>

SvcHandleSignupCreate ==
    \E c \in BagToSet(calls) :
        /\ backend = "service"
        /\ c.kind = "signup" /\ c.st = "checked"
        /\ LET r == SvcSignupCreate(store, c.req, now) IN
           /\ store' = r.store
           /\ calls' = With(Without(calls, c), Answered(c, r.resp))
        /\ UNCHANGED <<user, token, loading, ls, depsToken, last, meSent, ops,
                       backend, now, reqs>>

\* time passes
Tick ==
    /\ now < MaxTime
    /\ now' = now + 1
    /\ UNCHANGED <<clientVars, backend, store, reqs>>

Next ==
    \/ RunEffect
    \/ Login
    \/ Signup
    \/ Logout
    \/ Reload
    \/ LoginResolve
    \/ SignupResolve
    \/ FetchUserDone
    \/ MockHandle
    \/ SvcHandleLogin
    \/ SvcHandleMe
    \/ SvcHandleSignupCheck
    \/ SvcHandleSignupCreate

Spec == Init /\ [][Next]_vars

\* React runs a pending effect after the render that scheduled it, and the
\* runtime resumes fetchUser once its awaits settle (with a response, a
\* rejection or a body that does not parse).
SpecLive == Spec /\ WF_vars(RunEffect) /\ WF_vars(FetchUserDone)

-----------------------------------------------------------------------------
(* The API on its own: requests of any client, sent straight to the        *)
(* backend, each logged with its answer.                                   *)

BadEmail == <<"b","a","d">>

ShortPassword == <<"1","2","3","4","5">>

ApiLoginBodies ==
    { [email |-> JohnEmail, password |-> Password123],
      [email |-> JohnEmail, password |-> WrongPassword],
      [email |-> NewEmail, password |-> Password123],
      [email |-> Null, password |-> Password123],
      [email |-> JohnEmail, password |-> <<>>] }

SignupBody(email, password) ==
    [email |-> email, password |-> password, firstName |-> Null, lastName |-> Null]

ApiSignupBodies ==
    { SignupBody(NewEmail, Password123),
      SignupBody(JohnEmail, Password123),
      SignupBody(BadEmail, Password123),
      SignupBody(NewEmail, ShortPassword),
      SignupBody(Null, Password123) }

\* the tokens the answers logged so far carry
IssuedTokens ==
    { reqs[i].resp.body.data.token :
        i \in {j \in 1..Len(reqs) : /\ reqs[j].op \in {"login", "signup"}
                                    /\ reqs[j].st = "done"
                                    /\ reqs[j].resp.body.success} }

\* token strings a client can make up without the service
ForgedTokens ==
    { <<"g","a","r","b","a","g","e">>,
      MockTokenPrefix \o <<"1">>,
      <<"j","w","t",".","1",".","0",".","x">> }

ApiHeaders ==
    {Null, <<"T","o","k","e","n"," ","x">>}
        \cup {AuthorizationHeader(t) : t \in IssuedTokens \cup ForgedTokens}

Logged(op, req, st, resp) == [op |-> op, req |-> req, st |-> st, resp |-> resp, at |-> now]

InitSvc ==
    /\ backend \in Backends
    /\ store = SeedUsers
    /\ now = 0
    /\ reqs = <<>>
    /\ ls = Null
    /\ user = NoUser
    /\ token = Null
    /\ loading = FALSE
    /\ depsToken = Null
    /\ calls = EmptyBag
    /\ last = [ev |-> "mount", prev |-> "start"]
    /\ meSent = 0
    /\ ops = 0

ApiLogin ==
    \E body \in ApiLoginBodies :
        /\ Len(reqs) < MaxReqs
        /\ reqs' = Append(reqs, Logged("login", body, "done",
                                       IF backend = "mock" THEN MockLogin(body, now)
                                       ELSE SvcLogin(store, body, now)))
        /\ UNCHANGED <<clientVars, backend, store, now>>

ApiMe ==
    \E header \in ApiHeaders :
        /\ Len(reqs) < MaxReqs
        /\ reqs' = Append(reqs, Logged("me", [authorization |-> header], "done",
                                       IF backend = "mock" THEN MockMe(header)
                                       ELSE SvcMe(store, header, now)))
        /\ UNCHANGED <<clientVars, backend, store, now>>

ApiMockSignup ==
    \E body \in ApiSignupBodies :
        /\ backend = "mock"
        /\ Len(reqs) < MaxReqs
        /\ reqs' = Append(reqs, Logged("signup", body, "done", MockSignup(body, now)))
        /\ UNCHANGED <<clientVars, backend, store, now>>

\* the service validates and looks the email up ...
ApiSignupCheck ==
    \E body \in ApiSignupBodies :
        /\ backend = "service"
        /\ Len(reqs) < MaxReqs
        /\ LET r == SvcSignupCheck(store, body) IN
           reqs' = Append(reqs, IF r = <<>> THEN Logged("signup", body, "checked", NoResp)
                                ELSE Logged("signup", body, "done", r[1]))
        /\ UNCHANGED <<clientVars, backend, store, now>>

\* ... and creates the user in a later step
ApiSignupCreate ==
    \E i \in 1..Len(reqs) :
        /\ backend = "service"
        /\ reqs[i].st = "checked"
        /\ LET r == SvcSignupCreate(store, reqs[i].req, now) IN
           /\ store' = r.store
           /\ reqs' = [reqs EXCEPT ![i] = Logged("signup", reqs[i].req, "done", r.resp)]
        /\ UNCHANGED <<clientVars, backend, now>>

NextSvc ==
    \/ ApiLogin
    \/ ApiMe
    \/ ApiMockSignup
    \/ ApiSignupCheck
    \/ ApiSignupCreate
    \/ Tick

SpecSvc == InitSvc /\ [][NextSvc]_vars

-----------------------------------------------------------------------------
(* Properties of the client store, checked under Spec *)

\* the awaits of a login/signup/me yielded a body that reports success
Succeeded(r) == r.kind = "json" /\ r.body.success

\* the awaits yielded a body that reports failure
Refused(r) == r.kind = "json" /\ ~r.body.success

\* the request was rejected or its body could not be parsed
TransportFailed(r) == r.kind \in {"reject", "badjson"}

AuthCalls == {c \in BagToSet(calls) : c.kind \in {"login", "signup"}}

MeCalls == {c \in BagToSet(calls) : c.kind = "me"}

\* C1: when a login or signup resolves with a response that reports
\* success, the returned token is in localStorage and in memory, the
\* returned user is held, isAuthenticated is true and the caller gets
\* {success: true}.
C1_AuthSuccessStoresSession ==
    [][\A c \in AuthCalls : \A r \in Outcomes(c) :
          (AuthResolve(c, r) /\ Succeeded(r)) =>
              /\ ls' = r.body.data.token
              /\ token' = r.body.data.token
              /\ user' = r.body.data.user
              /\ IsAuthenticated'
              /\ last'.ret = [success |-> TRUE]]_vars

C1_Witness ==
    /\ last.ev \in {"login", "signup"}
    /\ Succeeded(last.got)
    /\ last.ret = [success |-> TRUE]
    /\ Truthy(token)
    /\ token = last.got.body.data.token
    /\ ls = token
    /\ user = last.got.body.data.user
    /\ IsAuthenticated

\* C2: when the GetCurrentUser lookup of a stored token fails (a response
\* that does not report success, a rejected request, an unparseable body),
\* the client is left with no user, no token in memory and no token in
\* localStorage.
C2_FailedLookupClearsSession ==
    [][\A c \in MeCalls : \A r \in Outcomes(c) :
          (FetchUserResolve(c, r) /\ ~Succeeded(r)) =>
              /\ user' = NoUser
              /\ token' = Null
              /\ ls' = Null
              /\ ~IsAuthenticated']_vars

\* the first lookup after the page load, for the token found in storage,
\* answered with a failure by the backend
C2_Witness ==
    /\ ops = 0
    /\ meSent = 1
    /\ last.ev = "me"
    /\ Refused(last.got)
    /\ user = NoUser /\ token = Null /\ ls = Null

\* C3: logout, in any state, removes the token from localStorage, clears
\* the held token and user, and sends nothing to the backend.
C3_LogoutClearsLocally ==
    [][Logout =>
          /\ ls' = Null
          /\ token' = Null
          /\ user' = NoUser
          /\ ~IsAuthenticated'
          /\ calls' = calls
          /\ meSent' = meSent
          /\ store' = store]_vars

\* a logout of an authenticated user while a request is still in flight
C3_Witness ==
    /\ last.ev = "logout"
    /\ last.hadUser
    /\ calls # EmptyBag
    /\ ls = Null /\ token = Null /\ user = NoUser

\* the page has only run its mount effect and the lookup of the stored
\* token is in flight
Resolving == ops = 0 /\ Truthy(token) /\ MeCalls # {}

\* C4: isAuthenticated is true exactly when a user is held; while the
\* stored token's lookup is in flight and no user has been resolved,
\* isAuthenticated is false although a token is held.
C4_AuthenticatedIffUser ==
    /\ IsAuthenticated <=> user # NoUser
    /\ Resolving => ~IsAuthenticated

C4_Witness == Resolving /\ ~IsAuthenticated /\ loading

\* C8: when a login or signup resolves with a response that reports
\* failure, user, token and localStorage are as they were and the caller
\* gets {success: false, message: <the service's message>}.
C8_AuthRefusedKeepsState ==
    [][\A c \in AuthCalls : \A r \in Outcomes(c) :
          (AuthResolve(c, r) /\ Refused(r)) =>
              /\ user' = user /\ token' = token /\ ls' = ls
              /\ last'.ret = [success |-> FALSE, message |-> r.body.message]]_vars

\* a refused login of a client that holds a session
C8_Witness ==
    /\ last.ev \in {"login", "signup"}
    /\ Refused(last.got)
    /\ last.ret = [success |-> FALSE, message |-> last.got.body.message]
    /\ IsAuthenticated /\ Truthy(token) /\ ls = token

\* C9: when the request of a login or signup is rejected or its body
\* cannot be parsed, the call returns {success: false, message: 'Network
\* error. Please try again.'}, user, token and localStorage are as they
\* were, and no request is sent in its place.
C9_TransportFailureReported ==
    [][\A c \in AuthCalls : \A r \in Outcomes(c) :
          (AuthResolve(c, r) /\ TransportFailed(r)) =>
              /\ last'.ret = [success |-> FALSE, message |-> MsgNetwork]
              /\ user' = user /\ token' = token /\ ls' = ls
              /\ calls' = Without(calls, c)
              /\ meSent' = meSent]_vars

C9_Witness ==
    /\ last.ev \in {"login", "signup"}
    /\ TransportFailed(last.got)
    /\ last.ret = [success |-> FALSE, message |-> MsgNetwork]
    /\ calls = EmptyBag

\* C10: the mount effect of a page loaded with no token in localStorage
\* clears the loading flag, leaves the client unauthenticated and sends no
\* GetCurrentUser request; a GetCurrentUser request is only ever sent for
\* a token that is held.
C10_NoTokenNoLookup ==
    [][/\ (RunEffect /\ ~Mounted /\ Falsy(token)) =>
              /\ loading' = FALSE
              /\ ~IsAuthenticated'
              /\ calls' = calls
              /\ meSent' = 0
       /\ (meSent' > meSent) => Truthy(token)]_vars

\* the page loaded again after a logout: no token, no lookup
C10_Witness ==
    /\ last.ev = "effect" /\ last.boot /\ ~last.fetched
    /\ last.prev = "logout"
    /\ loading = FALSE /\ ~IsAuthenticated
    /\ meSent = 0 /\ calls = EmptyBag

-----------------------------------------------------------------------------
(* Properties of the API, checked under SpecSvc *)

Done(i) == reqs[i].st = "done"

Issued(i) ==
    /\ reqs[i].op \in {"login", "signup"}
    /\ Done(i)
    /\ reqs[i].resp.body.success

\* GetCurrentUser with `Bearer <the token answer i carries>` answers 200
\* with the id and email of the user answer i carries
RoundTrips(i) ==
    LET tok == reqs[i].resp.body.data.token
        u == reqs[i].resp.body.data.user
        me == SvcMe(store, AuthorizationHeader(tok), now)
    IN  /\ me.status = 200
        /\ me.body.success
        /\ me.body.data.user.id = u.id
        /\ me.body.data.user.email = u.email

\* C5 as stated: every token a successful Signup or Login returned resolves,
\* at any later time, to the user it was issued for.
C5_RoundTripAtAnyTime ==
    backend = "service" =>
        \A i \in 1..Len(reqs) : Issued(i) => RoundTrips(i)

\* C5, amended: every token a successful Signup or Login returned resolves
\* to the user it was issued for as long as the token has not expired.
C5_RoundTripWithinLifetime ==
    backend = "service" =>
        \A i \in 1..Len(reqs) :
            (Issued(i) /\ now - reqs[i].at < TokenTTL) => RoundTrips(i)

\* a token issued by a signup, presented at a later instant, answered 200
\* with the user that signed up
C5_Witness ==
    /\ backend = "service"
    /\ \E i, j \in 1..Len(reqs) :
          /\ i < j
          /\ reqs[i].op = "signup" /\ Issued(i)
          /\ reqs[j].op = "me" /\ reqs[j].at > reqs[i].at
          /\ reqs[j].req.authorization = AuthorizationHeader(reqs[i].resp.body.data.token)
          /\ reqs[j].resp.status = 200
          /\ reqs[j].resp.body.data.user.email = reqs[i].req.email

\* a signup input that passes the presence, format and length checks
ValidSignup(body) ==
    /\ Truthy(body.email) /\ Truthy(body.password)
    /\ EmailRegexTest(body.email)
    /\ Len(body.password) >= MinPasswordLength

ValidSignupBodies == {body \in ApiSignupBodies : ValidSignup(body)}

\* C6: for a valid signup input whose email is not in the store, the first
\* of two consecutive Signup requests answers 201 and the second 409 'User
\* with this email already exists'.
C6_SignupTwice ==
    backend = "service" =>
        \A body \in ValidSignupBodies :
            (\A u \in store : u.email # body.email) =>
                LET first == SvcSignup(store, body, now)
                    second == SvcSignup(first.store, body, now)
                IN  /\ first.resp.status = 201
                    /\ second.resp = Failure(409, MsgExists)

C6_Witness ==
    /\ backend = "service"
    /\ Len(reqs) >= 2
    /\ reqs[1].op = "signup" /\ Done(1) /\ reqs[1].resp.status = 201
    /\ reqs[2].op = "signup" /\ Done(2) /\ reqs[2].req = reqs[1].req
    /\ reqs[2].resp = Failure(409, MsgExists)

\* the login handler of the backend in use
LoginAnswer(body) ==
    IF backend = "mock" THEN MockLogin(body, now) ELSE SvcLogin(store, body, now)

KnownEmails ==
    IF backend = "mock" THEN {mockUsers[i].email : i \in 1..Len(mockUsers)}
    ELSE {u.email : u \in store}

\* login inputs with an email and a password
CompleteLogins == {b \in ApiLoginBodies : Truthy(b.email) /\ Truthy(b.password)}

\* logins for John with a password that is not his
WrongPasswordLogins ==
    {b \in CompleteLogins : b.email = JohnEmail /\ b.password # Password123}

\* C7: a login for an email no user has and a login for John's email with a
\* password that is not John's get the same response: 401, success false,
\* 'Invalid email or password'.
C7_LoginFailuresAlike ==
    \A unknown \in CompleteLogins, wrong \in WrongPasswordLogins :
        unknown.email \notin KnownEmails =>
            /\ LoginAnswer(unknown) = LoginAnswer(wrong)
            /\ LoginAnswer(unknown) = Failure(401, MsgBadCredentials)

\* both kinds of failed login have been answered, alike
C7_Witness ==
    /\ Len(reqs) >= 2
    /\ reqs[1].op = "login" /\ reqs[1].req.email = NewEmail
    /\ reqs[2].op = "login" /\ reqs[2].req = [email |-> JohnEmail, password |-> WrongPassword]
    /\ reqs[1].resp = reqs[2].resp
    /\ reqs[1].resp.status = 401

-----------------------------------------------------------------------------
(* Bootstrap and races of the client store *)

\* C11: when the GetCurrentUser request of fetchUser completes, with
\* success or with any failure, loading is false afterwards, and on success
\* the returned user is held and isAuthenticated is true; given that every
\* request eventually completes, a page that is loading with a token held
\* eventually stops loading.
C11_BootstrapCompletes ==
    /\ [][\A c \in MeCalls : \A r \in Outcomes(c) :
             FetchUserResolve(c, r) =>
                 /\ loading' = FALSE
                 /\ Succeeded(r) => (user' = r.body.data.user /\ IsAuthenticated')]_vars
    /\ (loading /\ Truthy(token)) ~> ~loading

\* the lookup of the token found in storage at page load reported success
C11_Witness ==
    /\ ops = 0 /\ meSent = 1
    /\ last.ev = "me" /\ Succeeded(last.got)
    /\ ~loading
    /\ user = last.got.body.data.user
    /\ IsAuthenticated /\ Truthy(token) /\ ls = token

\* the last client step resolved a login/signup while another one was in
\* flight, and that other one has not resolved yet
Raced == last.ev \in {"login", "signup"} /\ last.open

-----------------------------------------------------------------------------
(* Concurrent signups, checked under SpecSvc *)

SignupDone(i) == reqs[i].op = "signup" /\ Done(i)

\* the statuses the contract gives Signup
SignupStatuses == {201, 400, 409}

\* the answered Signups with a valid input and the email of request i
SameSignups(i) ==
    {j \in 1..Len(reqs) : /\ SignupDone(j)
                          /\ ValidSignup(reqs[j].req)
                          /\ reqs[j].req.email = reqs[i].req.email}

\* C13: Signup requests of the service with the same valid email that is
\* not in the store beforehand, their existence checks and creates
\* interleaved in any order, leave exactly one user with that email; one of
\* them is answered 201 and every other one 409 'User with this email
\* already exists' (for two requests: one 201 and one 409); no Signup is
\* answered with anything but 201, 400 or 409, and no email is ever held by
\* two users.
C13_ConcurrentSignups ==
    backend = "service" =>
        /\ \A u, v \in store : u.email = v.email => u = v
        /\ \A i \in 1..Len(reqs) : SignupDone(i) => reqs[i].resp.status \in SignupStatuses
        /\ \A i \in 1..Len(reqs) :
              ( /\ SignupDone(i) /\ ValidSignup(reqs[i].req)
                /\ SvcFindByEmail(SeedUsers, reqs[i].req.email) = {} )
              => /\ Cardinality(SvcFindByEmail(store, reqs[i].req.email)) = 1
                 /\ Cardinality({j \in SameSignups(i) : reqs[j].resp.status = 201}) = 1
                 /\ \A j \in SameSignups(i) :
                       reqs[j].resp.status # 201 => reqs[j].resp = Failure(409, MsgExists)

\* the request that was checked first is the one refused: both passed the
\* existence check before either created, and the second created first
C13_Witness ==
    /\ backend = "service"
    /\ Len(reqs) >= 2
    /\ SignupDone(1) /\ SignupDone(2)
    /\ reqs[1].req = reqs[2].req
    /\ reqs[1].resp = Failure(409, MsgExists)
    /\ reqs[2].resp.status = 201
    /\ Cardinality(SvcFindByEmail(store, reqs[1].req.email)) = 1

-----------------------------------------------------------------------------
(* One request of any shape, sent to the mock or to the service *)

MaxEmailLen == 5   \* length of the emails typed over EmailAlphabet

EmailAlphabet == {"a", "@", ".", " "}

TypedEmails == UNION {[1..n -> EmailAlphabet] : n \in 0..MaxEmailLen}

SixPassword == <<"1","2","3","4","5","6">>

AnyEmails == TypedEmails \cup {Null, JohnEmail, JaneEmail, NewEmail}

ThreePassword == <<"a","b","c">>

AnyPasswords ==
    {Null, <<>>, <<"a">>, ThreePassword, ShortPassword, SixPassword, Password123}

AnyNames == {Null, <<"N","e","w">>}

AnySignupBodies ==
    [email : AnyEmails, password : AnyPasswords, firstName : AnyNames, lastName : AnyNames]

AnyLoginBodies ==
    [email : {Null, <<>>, JohnEmail, NewEmail, BadEmail},
     password : AnyPasswords \cup {WrongPassword}]

\* tokens that resolve: John's, as the mock and as the service make them
GoodTokens == {generateMockToken(1, JohnEmail, 0), SvcIssueToken(1, 0)}

\* headers that do not start with 'Bearer ', most of them around a good token
UnprefixedHeaders ==
    {Null, <<>>, <<"I","n","v","a","l","i","d","T","o","k","e","n">>}
        \cup GoodTokens
        \cup {<<"T","o","k","e","n"," ">> \o t : t \in GoodTokens}
        \cup {<<"b","e","a","r","e","r"," ">> \o t : t \in GoodTokens}
        \cup {<<"B","e","a","r","e","r">> \o t : t \in GoodTokens}

\* tokens made for user 3, whom neither mockUsers nor the seeded store holds:
\* what the mock's signup hands out, and a token the service signed for a
\* user its store does not have
OrphanTokens == {generateMockToken(3, NewEmail, 0), SvcIssueToken(3, 0)}

AnyHeaders ==
    UnprefixedHeaders
        \cup {AuthorizationHeader(t) :
                t \in GoodTokens \cup ForgedTokens \cup OrphanTokens \cup {<<>>}}

InitAny == InitSvc

AnySignup ==
    /\ reqs = <<>>
    /\ \E body \in AnySignupBodies :
        /\ LET r == IF backend = "mock"
                    THEN [store |-> store, resp |-> MockSignup(body, now)]
                    ELSE SvcSignup(store, body, now)
           IN  /\ store' = r.store
               /\ reqs' = <<Logged("signup", body, "done", r.resp)>>
        /\ UNCHANGED <<clientVars, backend, now>>

AnyLogin ==
    /\ reqs = <<>>
    /\ \E body \in AnyLoginBodies :
        /\ reqs' = <<Logged("login", body, "done",
                            IF backend = "mock" THEN MockLogin(body, now)
                            ELSE SvcLogin(store, body, now))>>
        /\ UNCHANGED <<clientVars, backend, store, now>>

AnyMe ==
    /\ reqs = <<>>
    /\ \E header \in AnyHeaders :
        /\ reqs' = <<Logged("me", [authorization |-> header], "done",
                            IF backend = "mock" THEN MockMe(header)
                            ELSE SvcMe(store, header, now))>>
        /\ UNCHANGED <<clientVars, backend, store, now>>

NextAny ==
    \/ AnySignup
    \/ AnyLogin
    \/ AnyMe

SpecAny == InitAny /\ [][NextAny]_vars

-----------------------------------------------------------------------------
(* Validation and answers of Signup, Login and GetCurrentUser, checked     *)
(* under SpecAny                                                           *)

Signups == {i \in 1..Len(reqs) : reqs[i].op = "signup"}

Logins == {i \in 1..Len(reqs) : reqs[i].op = "login"}

Mes == {i \in 1..Len(reqs) : reqs[i].op = "me"}

\* email or password is absent or empty
Incomplete(body) == Falsy(body.email) \/ Falsy(body.password)

\* C14: every Signup whose email or password is absent or empty is answered
\* 400 'Email and password are required', whatever the other field and the
\* names are: also when the email given is malformed or registered, or the
\* password given is too short.
C14_SignupRequiresBoth ==
    \A i \in Signups :
        Incomplete(reqs[i].req) => reqs[i].resp = Failure(400, MsgRequired)

\* a signup with a malformed email and no password
C14_Witness ==
    /\ Len(reqs) = 1 /\ reqs[1].op = "signup"
    /\ Truthy(reqs[1].req.email) /\ ~EmailRegexTest(reqs[1].req.email)
    /\ reqs[1].req.password = Null
    /\ reqs[1].req.firstName # Null
    /\ reqs[1].resp = Failure(400, MsgRequired)

\* no whitespace, exactly one '@' with something before it, and after it a
\* part with a '.' that is neither its first nor its last character
WellShaped(s) ==
    LET ats == {k \in 1..Len(s) : s[k] = "@"} IN
    /\ \A k \in 1..Len(s) : ~IsSpace(s[k])
    /\ Cardinality(ats) = 1
    /\ LET at == CHOOSE k \in ats : TRUE
           domain == SubSeq(s, at + 1, Len(s))
       IN  /\ at > 1
           /\ \E k \in 2..(Len(domain) - 1) : domain[k] = "."

\* C15: a Signup with a non-empty email and password is answered 400
\* 'Invalid email format' exactly when its email is not well shaped.
C15_EmailFormat ==
    \A i \in Signups :
        ~Incomplete(reqs[i].req) =>
            (reqs[i].resp = Failure(400, MsgBadEmail) <=> ~WellShaped(reqs[i].req.email))

\* an email with a '.' and two '@' is refused; so is one with a space
C15_Witness ==
    /\ Len(reqs) = 1 /\ reqs[1].op = "signup"
    /\ ~Incomplete(reqs[1].req)
    /\ Cardinality({k \in 1..Len(reqs[1].req.email) : reqs[1].req.email[k] = "@"}) = 2
    /\ \E k \in 1..Len(reqs[1].req.email) : reqs[1].req.email[k] = "."
    /\ reqs[1].resp = Failure(400, MsgBadEmail)

\* C16: a Signup with a well-formed email and a non-empty password shorter
\* than 6 characters is answered 400 'Password must be at least 6 characters
\* long'; with a password of exactly 6 characters it is answered 201 or 409.
C16_PasswordLength ==
    \A i \in Signups :
        (Truthy(reqs[i].req.email) /\ EmailRegexTest(reqs[i].req.email)
            /\ Truthy(reqs[i].req.password)) =>
            /\ Len(reqs[i].req.password) < 6 =>
                  reqs[i].resp = Failure(400, MsgShortPassword)
            /\ Len(reqs[i].req.password) = 6 => reqs[i].resp.status \in {201, 409}

\* a signup with a password of exactly 6 characters went through
C16_Witness ==
    /\ Len(reqs) = 1 /\ reqs[1].op = "signup"
    /\ reqs[1].req.password = SixPassword
    /\ reqs[1].resp.status = 201

\* the email belonged to a user before the request
Registered(email) ==
    IF backend = "mock" THEN MockFindByEmail(email) # <<>>
    ELSE SvcFindByEmail(SeedUsers, email) # {}

\* C17: a Signup that passes the presence, format and length checks and
\* whose email is registered is answered 409 'User with this email already
\* exists', with no data and so no token, and the store is left as it was.
C17_SignupConflict ==
    \A i \in Signups :
        (ValidSignup(reqs[i].req) /\ Registered(reqs[i].req.email)) =>
            /\ reqs[i].resp = Failure(409, MsgExists)
            /\ store = SeedUsers

C17_Witness ==
    /\ Len(reqs) = 1 /\ reqs[1].op = "signup"
    /\ reqs[1].req.email = JaneEmail /\ reqs[1].req.password = SixPassword
    /\ reqs[1].resp = Failure(409, MsgExists)

\* the user identifier a token carries, as GetCurrentUser reads it
TokenUserId(tok) ==
    IF backend = "mock" THEN ParseInt(Split(tok, "-")[4])
    ELSE SvcResolveToken(tok, now)

\* C18: a Signup that passes all checks is answered 201 with success true,
\* the submitted email in data.user.email, a non-empty data.token that
\* carries the new user's identifier, and each name as given, or null when
\* it was not given; the service's store then holds that user.
C18_SignupCreates ==
    \A i \in Signups :
        (ValidSignup(reqs[i].req) /\ ~Registered(reqs[i].req.email)) =>
            LET body == reqs[i].req
                resp == reqs[i].resp
            IN  /\ resp.status = 201
                /\ resp.body.success
                /\ resp.body.data.user.email = body.email
                /\ Truthy(resp.body.data.token)
                /\ TokenUserId(resp.body.data.token) = <<resp.body.data.user.id>>
                /\ resp.body.data.user.firstName = body.firstName
                /\ resp.body.data.user.lastName = body.lastName
                /\ backend = "service" =>
                      \E u \in store : /\ u.id = resp.body.data.user.id
                                       /\ u.email = body.email
                                       /\ u.firstName = body.firstName
                                       /\ u.lastName = body.lastName

\* a signup without names
C18_Witness ==
    /\ Len(reqs) = 1 /\ reqs[1].op = "signup"
    /\ reqs[1].req.firstName = Null /\ reqs[1].req.lastName = Null
    /\ reqs[1].resp.status = 201
    /\ reqs[1].resp.body.data.user.firstName = Null
    /\ reqs[1].resp.body.data.user.lastName = Null
    /\ reqs[1].resp.body.data.user.email = reqs[1].req.email

\* C19: a Login is answered 400 exactly when its email or password is absent
\* or empty; a Login with both, however short the password, is answered 200
\* or 401.
C19_LoginPresenceOnly ==
    \A i \in Logins :
        /\ reqs[i].resp.status = 400 <=> Incomplete(reqs[i].req)
        /\ ~Incomplete(reqs[i].req) => reqs[i].resp.status \in {200, 401}

\* a login with a one-character password reached the credential check
C19_Witness ==
    /\ Len(reqs) = 1 /\ reqs[1].op = "login"
    /\ reqs[1].req.email = JohnEmail
    /\ Len(reqs[1].req.password) = 1
    /\ reqs[1].resp = Failure(401, MsgBadCredentials)

\* C20: GetCurrentUser with no Authorization header, or with one that does
\* not start with 'Bearer ', is answered 401 'No token provided', also when
\* the header holds a token that would resolve.
C20_NoTokenProvided ==
    \A i \in Mes :
        (reqs[i].req.authorization = Null
            \/ ~StartsWith(reqs[i].req.authorization, BearerPrefix)) =>
            reqs[i].resp = Failure(401, MsgNoToken)

\* a good token sent without the 'Bearer ' prefix
C20_Witness ==
    /\ Len(reqs) = 1 /\ reqs[1].op = "me"
    /\ reqs[1].req.authorization \in GoodTokens
    /\ reqs[1].resp = Failure(401, MsgNoToken)

-----------------------------------------------------------------------------
(* Tokens and the store of the service, checked under SpecSvc *)

MeDone(i) == reqs[i].op = "me" /\ Done(i)

\* the header is of the form 'Bearer <token>'
HasBearer(i) ==
    /\ reqs[i].req.authorization # Null
    /\ StartsWith(reqs[i].req.authorization, BearerPrefix)

\* the <token> of a header 'Bearer <token>'
BearerToken(i) ==
    SubSeq(reqs[i].req.authorization, Len(BearerPrefix) + 1,
           Len(reqs[i].req.authorization))

\* the earlier answers that issued the token request i presents
IssuersOf(i) ==
    {j \in 1..Len(reqs) : /\ j < i
                          /\ Issued(j)
                          /\ reqs[j].resp.body.data.token = BearerToken(i)}

\* the token request i presents was issued and had not expired when presented
Live(i) == \E j \in IssuersOf(i) : reqs[i].at - reqs[j].at < TokenTTL

\* C21: GetCurrentUser of the service with a header 'Bearer <token>' whose
\* token is malformed, was never issued by the service, or was issued and
\* has expired, is answered 401 'Invalid or expired token'.
C21_UnresolvableToken ==
    backend = "service" =>
        \A i \in 1..Len(reqs) :
            (MeDone(i) /\ HasBearer(i) /\ ~Live(i)) =>
                reqs[i].resp = Failure(401, MsgBadToken)

\* a token issued by a login, presented once it has expired
C21_Witness ==
    /\ backend = "service"
    /\ \E i \in 1..Len(reqs) :
          /\ MeDone(i) /\ HasBearer(i)
          /\ IssuersOf(i) # {}
          /\ ~Live(i)
          /\ reqs[i].resp = Failure(401, MsgBadToken)

\* C24: GetCurrentUser of the service answers 200 with a user only for a
\* token that an earlier successful Signup or Login issued for that user
\* (same id and email), so never for a token the service did not issue; and
\* a token that was issued and has not expired is answered 200 with a user
\* that the store holds exactly once.
C24_OnlyIssuedTokensResolve ==
    backend = "service" =>
        \A i \in 1..Len(reqs) :
            (MeDone(i) /\ HasBearer(i)) =>
                /\ reqs[i].resp.status = 200 =>
                      \E j \in IssuersOf(i) :
                          /\ reqs[j].resp.body.data.user.id = reqs[i].resp.body.data.user.id
                          /\ reqs[j].resp.body.data.user.email
                                = reqs[i].resp.body.data.user.email
                /\ Live(i) =>
                      /\ reqs[i].resp.status = 200
                      /\ Cardinality(SvcFindById(store, reqs[i].resp.body.data.user.id)) = 1

\* John's login token resolved to John, and a token with a made-up
\* signature was turned away
C24_Witness ==
    /\ backend = "service"
    /\ Len(reqs) >= 2
    /\ reqs[1].op = "login" /\ Issued(1)
    /\ MeDone(2) /\ HasBearer(2)
    /\ BearerToken(2) = reqs[1].resp.body.data.token
    /\ reqs[2].resp.status = 200
    /\ reqs[2].resp.body.data.user.email = JohnEmail
    /\ SvcMe(store, AuthorizationHeader(<<"j","w","t",".","1",".","0",".","x">>), now)
          = Failure(401, MsgBadToken)

\* the Signups answered 201
Created == {i \in 1..Len(reqs) : SignupDone(i) /\ reqs[i].resp.status = 201}

\* C25: the store of the service always holds the users it started with,
\* unchanged, and beyond them exactly one user for each Signup answered 201,
\* as that answer describes it; a step changes the store only by adding the
\* one user of a Signup it answers 201, so Login, GetCurrentUser and refused
\* Signups leave it as it was.
C25_StoreOnlyGrowsBySignup ==
    /\ [](backend = "service" =>
            /\ SeedUsers \subseteq store
            /\ \A u \in store \ SeedUsers :
                  \E i \in Created : reqs[i].resp.body.data.user = SvcPublicUser(u)
            /\ Cardinality(store \ SeedUsers) = Cardinality(Created))
    /\ [][store' # store =>
             \E i \in 1..Len(reqs) :
                 /\ reqs[i].op = "signup" /\ reqs[i].st = "checked"
                 /\ reqs'[i].st = "done" /\ reqs'[i].resp.status = 201
                 /\ store \subseteq store'
                 /\ Cardinality(store' \ store) = 1]_vars

\* a signup answered 201 and then a login answered 200: the store holds the
\* users it started with and one more
C25_Witness ==
    /\ backend = "service"
    /\ Len(reqs) >= 2
    /\ reqs[1].op = "signup" /\ Done(1) /\ reqs[1].resp.status = 201
    /\ reqs[2].op = "login" /\ Done(2) /\ reqs[2].resp.status = 200
    /\ Cardinality(store) = Cardinality(SeedUsers) + 1
    /\ SeedUsers \subseteq store

-----------------------------------------------------------------------------
(* GetCurrentUser and the responses' content, checked under SpecAny *)

\* the user identifier the backend in use reads from the token of request i
ResolvedId(i) ==
    IF backend = "mock"
    THEN IF StartsWith(BearerToken(i), MockTokenPrefix)
         THEN ParseInt(Split(BearerToken(i), "-")[4]) ELSE <<>>
    ELSE SvcResolveToken(BearerToken(i), reqs[i].at)

KnownIds ==
    IF backend = "mock" THEN {mockUsers[k].id : k \in 1..Len(mockUsers)}
    ELSE {u.id : u \in store}

\* C22: GetCurrentUser with a token that resolves to the identifier of a
\* user that is not held is answered 404 'User not found'.
C22_UnknownUser ==
    \A i \in Mes :
        (HasBearer(i) /\ ResolvedId(i) # <<>> /\ ResolvedId(i)[1] \notin KnownIds) =>
            reqs[i].resp = Failure(404, MsgNoUser)

\* the token the mock's signup hands out for a new user, presented to the mock
C22_Witness ==
    /\ backend = "mock"
    /\ Len(reqs) = 1 /\ reqs[1].op = "me"
    /\ reqs[1].req.authorization = AuthorizationHeader(generateMockToken(3, NewEmail, 0))
    /\ reqs[1].resp = Failure(404, MsgNoUser)

\* what a user object in a response may carry
PublicFields == {"id", "email", "firstName", "lastName", "createdAt"}

\* C23: every response of Signup, Login and GetCurrentUser is either a
\* failure that carries only success and message, or a success whose data
\* holds nothing but a user and possibly a token, the user having only id,
\* email, names and creation time: no password and no password hash.
C23_NoPasswordInResponses ==
    \A i \in 1..Len(reqs) :
        Done(i) =>
            LET b == reqs[i].resp.body IN
            IF b.success
            THEN /\ DOMAIN b \subseteq {"success", "message", "data"}
                 /\ DOMAIN b.data \subseteq {"user", "token"}
                 /\ "user" \in DOMAIN b.data
                 /\ DOMAIN b.data.user \subseteq PublicFields
                 /\ {"id", "email"} \subseteq DOMAIN b.data.user
            ELSE DOMAIN b = {"success", "message"}

\* John logged in: the stored user has a password field, the answer's has not
C23_Witness ==
    /\ Len(reqs) = 1 /\ reqs[1].op = "login"
    /\ reqs[1].resp.status = 200
    /\ reqs[1].resp.body.data.user.email = JohnEmail
    /\ "password" \notin DOMAIN reqs[1].resp.body.data.user
    /\ IF backend = "mock" THEN "password" \in DOMAIN mockUsers[1]
       ELSE \A u \in store : "password" \in DOMAIN u

\* the answer of the first rule a signup input violates, in the order
\* presence, email format, password length, registered email
FirstViolation(body) ==
    IF Incomplete(body) THEN <<Failure(400, MsgRequired)>>
    ELSE IF ~WellShaped(body.email) THEN <<Failure(400, MsgBadEmail)>>
    ELSE IF Len(body.password) < 6 THEN <<Failure(400, MsgShortPassword)>>
    ELSE IF Registered(body.email) THEN <<Failure(409, MsgExists)>>
    ELSE <<>>

\* C26: a Signup that violates one or more rules is answered with the
\* error of the first rule it violates, in the order presence (400), email
\* format (400), password length (400), registered email (409); one that
\* violates none is answered 201.
C26_FirstViolationReported ==
    \A i \in Signups :
        IF FirstViolation(reqs[i].req) = <<>> THEN reqs[i].resp.status = 201
        ELSE reqs[i].resp = FirstViolation(reqs[i].req)[1]

\* a registered email with a 3-character password: the length error, not 409
C26_Witness ==
    /\ Len(reqs) = 1 /\ reqs[1].op = "signup"
    /\ reqs[1].req.email = JohnEmail
    /\ reqs[1].req.password = ThreePassword
    /\ reqs[1].resp = Failure(400, MsgShortPassword)

\* a malformed email with a 3-character password: the format error
C26_WitnessFormat ==
    /\ Len(reqs) = 1 /\ reqs[1].op = "signup"
    /\ Truthy(reqs[1].req.email) /\ ~WellShaped(reqs[1].req.email)
    /\ reqs[1].req.password = ThreePassword
    /\ reqs[1].resp = Failure(400, MsgBadEmail)

-----------------------------------------------------------------------------
(* The client's token, user and lookups under interleaving, checked under
   Spec and SpecLive *)

\* C27: after every client operation (the mount, the effect, a resolved
\* lookup, signup or login, a logout, a reload, in any order and
\* interleaving), the token held in memory equals the token in
\* localStorage: both absent or both the same string.
C27_TokenMatchesStorage == token = ls

\* a logout clicked while a lookup was in flight, with a user held
C27_Witness ==
    /\ last.ev = "logout" /\ last.hadUser
    /\ MeCalls # {}
    /\ token = Null /\ ls = Null

\* the token tok is one the backend issues to the user u
IssuedTo(tok, u) ==
    \E t \in 0..MaxTime :
        tok = IF backend = "mock" THEN generateMockToken(u.id, u.email, t)
              ELSE SvcIssueToken(u.id, t)

\* C28: in every reachable client state, whatever the order in which the
\* responses of GetCurrentUser, Login and Signup arrive relative to each
\* other and to Logout, a held user implies a held token, and that token
\* is one issued to that same user.
C28_UserImpliesOwnToken ==
    IsAuthenticated => (Truthy(token) /\ IssuedTo(token, user))

\* the lookup c was sent with a token other than the one now held
Stale(c) == c.req.authorization # AuthorizationHeader(token)

\* C29: when a GetCurrentUser lookup fails after a successful login or
\* signup has stored a different token, the failure leaves that newer
\* token in localStorage and in memory and leaves the newer user held.
C29_FailedLookupKeepsNewerSession ==
    [][\A c \in MeCalls : \A r \in Outcomes(c) :
          (/\ FetchUserResolve(c, r) /\ ~Succeeded(r)
           /\ Truthy(token) /\ IsAuthenticated /\ Stale(c)) =>
              /\ ls' = ls
              /\ token' = token
              /\ user' = user]_vars

\* the lookup c carries a token that the mock's signup handed out
OfMockSignup(c) ==
    /\ backend = "mock"
    /\ \E t \in 0..MaxTime :
          c.req.authorization =
              AuthorizationHeader(generateMockToken(Len(mockUsers) + 1, NewEmail, t))

====
